---- MODULE Spec2Model ----
(***************************************************************************)
(* Model of compiler_opt/es/gradient_ascent_optimization_algorithms.py:    *)
(* the stateful gradient ascent optimizers MomentumOptimizer and           *)
(* AdamOptimizer (run_step, get_state, set_state).                         *)
(*                                                                         *)
(* Numbers.  A floating-point number x is the integer x * Unit (a fixed    *)
(* point value).  A float64 holds every such integer, a float32 only the   *)
(* multiples of Ulp32, so that a conversion to float32 rounds and loses    *)
(* precision as np.asarray(..., dtype=np.float32) does.  An array is a     *)
(* record [dtype, val]; arithmetic follows numpy: the result of an         *)
(* operation is rounded to the result's dtype, a Python scalar takes the   *)
(* dtype of the array it meets, float32 meeting float64 gives float64,     *)
(* and two one-dimensional operands are broadcast (equal lengths, or one   *)
(* of them of length 1; a ValueError otherwise).  NaN is the one           *)
(* non-finite value, produced by 0/0 and by the square root of a negative  *)
(* number.                                                                 *)
(***************************************************************************)
EXTENDS Integers, Sequences, FiniteSets, TLC

\* ------------------------------------------------------------------ bounds
\* vectors (parameters, gradients) have 0 .. MaxDim elements
MaxDim == 2
\* calls made in one behaviour of Spec
MaxCalls == 2
\* run_step calls made in one behaviour of SpecCount and of SpecRoundTrip
MaxSteps == 3

\* ----------------------------------------------------------------- numbers
\* the fixed point: the float 1.0
Unit == 16
\* the spacing of the float32 values
Ulp32 == 4
\* not a number
NaN == 0 - (Unit * Unit * Unit * Unit)

\* a / b rounded to the nearest integer (b > 0)
RoundDiv(a, b) == (2 * a + b) \div (2 * b)

\* np.float32(x)
F32(x) == IF x = NaN THEN NaN ELSE Ulp32 * RoundDiv(x, Ulp32)

\* the value x as held by an array of dtype dt
Round(dt, x) == IF dt = "float32" THEN F32(x) ELSE x

\* the dtype of an operation between arrays of dtypes a and b
Promote(a, b) == IF a = "float64" \/ b = "float64" THEN "float64" ELSE "float32"

\* a + b, a - b, a * b, a / b, sqrt(a) in float64
Add(a, b) == IF a = NaN \/ b = NaN THEN NaN ELSE a + b
Sub(a, b) == IF a = NaN \/ b = NaN THEN NaN ELSE a - b
Mul(a, b) == IF a = NaN \/ b = NaN THEN NaN ELSE RoundDiv(a * b, Unit)
Div(a, b) ==
  IF a = NaN \/ b = NaN \/ b = 0 THEN NaN
  ELSE IF b > 0 THEN RoundDiv(a * Unit, b) ELSE 0 - RoundDiv(a * Unit, 0 - b)
Sqrt(a) ==
  IF a = NaN \/ a < 0 THEN NaN
  ELSE CHOOSE r \in 0..(a * Unit) : r * r <= a * Unit /\ (r + 1) * (r + 1) > a * Unit

\* b ** n for a Python float b and an int n; a negative n gives 1 / b ** -n
RECURSIVE Pow(_, _)
Pow(b, n) ==
  IF n = 0 THEN Unit
  ELSE IF n > 0 THEN Mul(b, Pow(b, n - 1))
  ELSE Div(Unit, Pow(b, 0 - n))

\* int(x): truncation toward zero
IntOf(x) == IF x >= 0 THEN x \div Unit ELSE 0 - ((0 - x) \div Unit)

\* ------------------------------------------------------------------ arrays
\* np.asarray(s, dtype=np.float32) of a sequence of numbers
AsFloat32(s) == [dtype |-> "float32", val |-> [i \in 1..Len(s) |-> F32(s[i])]]

\* np.zeros(n, dtype=np.float32)
Zeros(n) == [dtype |-> "float32", val |-> [i \in 1..n |-> 0]]

\* the length two broadcast operands of lengths a and b give; NoShape: ValueError
NoShape == 0 - 1
BShape(a, b) ==
  IF a = b THEN a ELSE IF a = 1 THEN b ELSE IF b = 1 THEN a ELSE NoShape

\* element i of the operand x of a broadcast operation
At(x, i) == IF Len(x) = 1 THEN x[1] ELSE x[i]

\* scalar * array for a Python float scalar: the array keeps its dtype
Scaled(c, x) ==
  [dtype |-> x.dtype, val |-> [i \in 1..Len(x.val) |-> Round(x.dtype, Mul(c, x.val[i]))]]

\* x + y of two arrays whose shapes broadcast
Plus(x, y) ==
  LET dt == Promote(x.dtype, y.dtype)
  IN [dtype |-> dt,
      val |-> [i \in 1..BShape(Len(x.val), Len(y.val)) |->
                 Round(dt, Add(At(x.val, i), At(y.val, i)))]]

\* x * x
Squared(x) ==
  [dtype |-> x.dtype, val |-> [i \in 1..Len(x.val) |-> Round(x.dtype, Mul(x.val[i], x.val[i]))]]

\* the gradient as run_step uses it: an ndarray is taken as it is (float64
\* here), anything else goes through np.asarray(gradient, dtype=np.float32)
AsGradient(gradient) ==
  IF gradient.kind = "ndarray"
  THEN [dtype |-> "float64", val |-> gradient.val]
  ELSE AsFloat32(gradient.val)

\* current_input + step, current_input a sequence of Python floats
Stepped(current_input, step) ==
  [i \in 1..BShape(Len(current_input), Len(step.val)) |->
     Add(At(current_input, i), At(step.val, i))]

\* ---------------------------------------------------------- hyperparameters
\* the constructor arguments the optimizers are built with
step_size == Unit \div 2
beta1 == Unit \div 2
beta2 == (3 * Unit) \div 4
epsilon == 1
\* the momentum coefficients MomentumOptimizer is built with
Momenta == {0, Unit \div 2}

\* the check as it would be if it refused only a longer current_input
DimensionMismatchLonger(accumulator, current_input) ==
  Len(accumulator.val) # 0 /\ Len(accumulator.val) < Len(current_input)

\* the accumulator is not empty and its length is not that of current_input
DimensionMismatch(accumulator, current_input) ==
  Len(accumulator.val) # 0 /\ Len(accumulator.val) # Len(current_input)

\* ------------------------------------------------------- MomentumOptimizer
\* self.moving_average after __init__
InitialMovingAverage == [dtype |-> "float32", val |-> <<>>]

\* momentum * moving_average + (1 - momentum) * gradient
MovingAverageUpdate(momentum, moving_average, gradient) ==
  Plus(Scaled(momentum, moving_average), Scaled(Unit - momentum, gradient))

\* run_step: the moving average it leaves, the error it raises, its result
MomentumRunStep(momentum, moving_average, current_input, gradient) ==
  LET started == IF Len(moving_average.val) = 0
                 THEN Zeros(Len(current_input))
                 ELSE moving_average
      g == AsGradient(gradient)
      updated == MovingAverageUpdate(momentum, started, g)
      step == Scaled(step_size, updated)
  IN IF DimensionMismatch(moving_average, current_input)
     THEN [err |-> "dimension", moving_average |-> moving_average, out |-> <<>>]
     ELSE IF BShape(Len(started.val), Len(g.val)) = NoShape
     THEN [err |-> "broadcast", moving_average |-> started, out |-> <<>>]
     ELSE IF BShape(Len(current_input), Len(step.val)) = NoShape
     THEN [err |-> "broadcast", moving_average |-> updated, out |-> <<>>]
     ELSE [err |-> "none", moving_average |-> updated,
           out |-> Stepped(current_input, step)]

\* get_state: self.moving_average.tolist()
MomentumGetState(moving_average) == moving_average.val

\* set_state: np.asarray(state, dtype=np.float32)
MomentumSetState(state) == AsFloat32(state)

\* ----------------------------------------------------------- AdamOptimizer
\* the fields of an AdamOptimizer after __init__
InitialAdam ==
  [first_moment_moving_average |-> [dtype |-> "float32", val |-> <<>>],
   second_moment_moving_average |-> [dtype |-> "float32", val |-> <<>>],
   t |-> 0]

\* beta1 * first_moment_moving_average + (1 - beta1) * gradient
FirstMomentUpdate(m, gradient) ==
  Plus(Scaled(beta1, m), Scaled(Unit - beta1, gradient))

\* beta2 * second_moment_moving_average + (1 - beta2) * (gradient * gradient)
SecondMomentUpdate(v, gradient) ==
  Plus(Scaled(beta2, v), Scaled(Unit - beta2, Squared(gradient)))

\* the counter as it would be if run_step never reset it
StartCounterKept(m, t) == t

\* the step counter a run_step starts from: 0 when the moments are empty
StartCounter(m, t) == IF Len(m.val) = 0 THEN 0 ELSE t

\* self.t += 1
NextCounter(t) == t + 1

\* np.sqrt(1 - beta2**t) / (1 - beta1**t)
BiasCorrection(t) == Div(Sqrt(Sub(Unit, Pow(beta2, t))), Sub(Unit, Pow(beta1, t)))

\* step_size * scale * m / (np.sqrt(v) + epsilon)
AdamStep(m, v, t) ==
  LET c == Mul(step_size, BiasCorrection(t))
      dt == Promote(m.dtype, v.dtype)
  IN [dtype |-> dt,
      val |-> [i \in 1..BShape(Len(m.val), Len(v.val)) |->
                 Round(dt, Div(Round(m.dtype, Mul(c, At(m.val, i))),
                               Round(v.dtype,
                                     Add(Round(v.dtype, Sqrt(At(v.val, i))), epsilon))))]]

\* run_step on the optimizer self: the fields it leaves, the error, the result
AdamRunStep(self, current_input, gradient) ==
  LET empty == Len(self.first_moment_moving_average.val) = 0
      m0 == IF empty THEN Zeros(Len(current_input)) ELSE self.first_moment_moving_average
      v0 == IF empty THEN Zeros(Len(current_input)) ELSE self.second_moment_moving_average
      t0 == StartCounter(self.first_moment_moving_average, self.t)
      g == AsGradient(gradient)
      m1 == FirstMomentUpdate(m0, g)
      v1 == SecondMomentUpdate(v0, g)
      t1 == NextCounter(t0)
      step == AdamStep(m1, v1, t1)
      Left(m, v, t, e, o) ==
        [first_moment_moving_average |-> m, second_moment_moving_average |-> v,
         t |-> t, err |-> e, out |-> o]
  IN IF DimensionMismatch(self.first_moment_moving_average, current_input)
     THEN Left(self.first_moment_moving_average, self.second_moment_moving_average,
               self.t, "dimension", <<>>)
     ELSE IF BShape(Len(m0.val), Len(g.val)) = NoShape
     THEN Left(m0, v0, t0, "broadcast", <<>>)
     ELSE IF BShape(Len(v0.val), Len(g.val)) = NoShape
     THEN Left(m1, v0, t0, "broadcast", <<>>)
     ELSE IF BShape(Len(m1.val), Len(v1.val)) = NoShape
     THEN Left(m1, v1, t1, "broadcast", <<>>)
     ELSE IF BShape(Len(current_input), Len(step.val)) = NoShape
     THEN Left(m1, v1, t1, "broadcast", <<>>)
     ELSE Left(m1, v1, t1, "none", Stepped(current_input, step))

\* get_state: m.tolist() + v.tolist() + [t]
AdamGetState(self) ==
  self.first_moment_moving_average.val \o self.second_moment_moving_average.val
    \o <<self.t * Unit>>

\* the Python slice s[from:to] for 0 <= from, 0 <= to: it stops at the end of s
Min(a, b) == IF a <= b THEN a ELSE b
Slice(s, from, to) ==
  [i \in 1..(Min(to, Len(s)) - Min(from, Len(s))) |-> s[from + i]]

\* dim as it would be if the division rounded up
StateDimRoundedUp(total_len) == (total_len + 1) \div 2

\* dim = total_len // 2
StateDim(total_len) == total_len \div 2

\* state[:dim]
FirstMomentSlice(state) == Slice(state, 0, StateDim(Len(state)))

\* the slice as it would be if it ran to the end of the state: state[dim:]
SecondMomentSliceToEnd(state) ==
  Slice(state, StateDim(Len(state)), Len(state))

\* state[dim:2 * dim]
SecondMomentSlice(state) ==
  Slice(state, StateDim(Len(state)), 2 * StateDim(Len(state)))

\* int(state[-1])
CounterOf(state) == IntOf(state[Len(state)])

\* total_len % 2 != 1
BadParity(state) == Len(state) % 2 # 1

\* the fields as they would be with the two moments taken in the wrong order
AdamAssignedSwapped(state) ==
  [first_moment_moving_average |-> AsFloat32(SecondMomentSlice(state)),
   second_moment_moving_average |-> AsFloat32(FirstMomentSlice(state)),
   t |-> CounterOf(state)]

\* the fields a set_state that passed the parity check assigns
AdamAssigned(state) ==
  [first_moment_moving_average |-> AsFloat32(FirstMomentSlice(state)),
   second_moment_moving_average |-> AsFloat32(SecondMomentSlice(state)),
   t |-> CounterOf(state)]

\* set_state on the optimizer self: the fields it leaves and the error
AdamSetState(self, state) ==
  IF BadParity(state)
  THEN [first_moment_moving_average |-> self.first_moment_moving_average,
        second_moment_moving_average |-> self.second_moment_moving_average,
        t |-> self.t, err |-> "parity"]
  ELSE LET a == AdamAssigned(state)
       IN [first_moment_moving_average |-> a.first_moment_moving_average,
           second_moment_moving_average |-> a.second_moment_moving_average,
           t |-> a.t, err |-> IF a.t < 0 THEN "negative" ELSE "none"]

\* ------------------------------------------------------------------ inputs
\* the vector of n elements x, x + Ulp32, x + 2 * Ulp32, ...
Ramp(n, x) == [i \in 1..n |-> x + (i - 1) * Ulp32]

\* the vectors of at most n elements that start at one of the numbers S
Vectors(S, n) == {Ramp(k, x) : k \in 0..n, x \in S}

\* 0.375, which is no float32 value
Fraction == (3 * Unit) \div 8

\* the numbers the vectors start at
ParamVals == {Unit}
GradVals == {Fraction, Unit}
AccVals == {Fraction, Unit}
\* the last element of a state given to set_state: -1.0, -0.375, 1.375
CounterVals == {0 - Unit, 0 - Fraction, Unit + Fraction}

Params == Vectors(ParamVals, MaxDim)
Gradients ==
  {[kind |-> k, val |-> g] : k \in {"list", "ndarray"}, g \in Vectors(GradVals, MaxDim)}
\* what AdamOptimizer.set_state is given: two runs of accumulator values of
\* any lengths, then a counter or nothing
Payloads ==
  {a \o b \o c : a \in Vectors(AccVals, MaxDim), b \in Vectors(AccVals, MaxDim),
                 c \in {<<>>} \cup {<<x>> : x \in CounterVals}}

\* ------------------------------------------------------------------- state
VARIABLES
  variant,                        \* "momentum" or "adam": the class of the optimizer
  momentum,                       \* MomentumOptimizer.momentum
  moving_average,                 \* MomentumOptimizer.moving_average
  first_moment_moving_average,    \* AdamOptimizer.first_moment_moving_average
  second_moment_moving_average,   \* AdamOptimizer.second_moment_moving_average
  t,                              \* AdamOptimizer.t
  ret,                            \* the last call: its arguments, error and result
  calls,                          \* the number of calls made
  fixed_len,                      \* the length of every current_input (SpecCount, SpecRoundTrip)
  steps,                          \* the run_step calls that succeeded
  ndarray_seen,                   \* a gradient was given as an ndarray before the capture
  phase,                          \* "single", or "warmup" then "paired" (SpecRoundTrip)
  other,                          \* the second AdamOptimizer, set from the state of the first
  other_ret                       \* the last call on the second AdamOptimizer

vars == <<variant, momentum, moving_average, first_moment_moving_average,
          second_moment_moving_average, t, ret, calls, fixed_len, steps,
          ndarray_seen, phase, other, other_ret>>

\* the AdamOptimizer as a record of its fields
Self ==
  [first_moment_moving_average |-> first_moment_moving_average,
   second_moment_moving_average |-> second_moment_moving_average,
   t |-> t]

NoGradient == [kind |-> "list", val |-> <<>>]
Call(op, err, current_input, gradient, state, out) ==
  [op |-> op, err |-> err, current_input |-> current_input, gradient |-> gradient,
   state |-> state, out |-> out]
NoCall == Call("none", "none", <<>>, NoGradient, <<>>, <<>>)

\* MomentumOptimizer(step_size, momentum) or AdamOptimizer(step_size)
Init ==
  /\ variant \in {"momentum", "adam"}
  /\ momentum \in (IF variant = "momentum" THEN Momenta ELSE {0})
  /\ moving_average = InitialMovingAverage
  /\ first_moment_moving_average = InitialAdam.first_moment_moving_average
  /\ second_moment_moving_average = InitialAdam.second_moment_moving_average
  /\ t = InitialAdam.t
  /\ ret = NoCall
  /\ calls = 0
  /\ fixed_len = 0
  /\ steps = 0
  /\ ndarray_seen = FALSE
  /\ phase = "single"
  /\ other = InitialAdam
  /\ other_ret = NoCall

\* what the calls on the one optimizer of Spec leave alone
OneOptimizer == UNCHANGED <<fixed_len, steps, ndarray_seen, phase, other, other_ret>>

AdamUnchanged ==
  UNCHANGED <<first_moment_moving_average, second_moment_moving_average, t>>

\* MomentumOptimizer.run_step(current_input, gradient)
MomentumRunStepCall ==
  /\ variant = "momentum"
  /\ calls < MaxCalls
  /\ \E current_input \in Params, gradient \in Gradients :
       LET r == MomentumRunStep(momentum, moving_average, current_input, gradient)
       IN /\ moving_average' = r.moving_average
          /\ ret' = Call("run_step", r.err, current_input, gradient, <<>>, r.out)
  /\ calls' = calls + 1
  /\ OneOptimizer
  /\ AdamUnchanged
  /\ UNCHANGED <<variant, momentum>>

\* MomentumOptimizer.get_state()
MomentumGetStateCall ==
  /\ variant = "momentum"
  /\ calls < MaxCalls
  /\ ret' = Call("get_state", "none", <<>>, NoGradient, <<>>,
                 MomentumGetState(moving_average))
  /\ calls' = calls + 1
  /\ OneOptimizer
  /\ AdamUnchanged
  /\ UNCHANGED <<variant, momentum, moving_average>>

\* MomentumOptimizer.set_state(state)
MomentumSetStateCall ==
  /\ variant = "momentum"
  /\ calls < MaxCalls
  /\ \E state \in Vectors(AccVals, MaxDim) :
       /\ moving_average' = MomentumSetState(state)
       /\ ret' = Call("set_state", "none", <<>>, NoGradient, state, <<>>)
  /\ calls' = calls + 1
  /\ OneOptimizer
  /\ AdamUnchanged
  /\ UNCHANGED <<variant, momentum>>

\* AdamOptimizer.run_step(current_input, gradient)
AdamRunStepCall ==
  /\ variant = "adam"
  /\ calls < MaxCalls
  /\ \E current_input \in Params, gradient \in Gradients :
       LET r == AdamRunStep(Self, current_input, gradient)
       IN /\ first_moment_moving_average' = r.first_moment_moving_average
          /\ second_moment_moving_average' = r.second_moment_moving_average
          /\ t' = r.t
          /\ ret' = Call("run_step", r.err, current_input, gradient, <<>>, r.out)
  /\ calls' = calls + 1
  /\ OneOptimizer
  /\ UNCHANGED <<variant, momentum, moving_average>>

\* AdamOptimizer.get_state()
AdamGetStateCall ==
  /\ variant = "adam"
  /\ calls < MaxCalls
  /\ ret' = Call("get_state", "none", <<>>, NoGradient, <<>>, AdamGetState(Self))
  /\ calls' = calls + 1
  /\ OneOptimizer
  /\ AdamUnchanged
  /\ UNCHANGED <<variant, momentum, moving_average>>

\* AdamOptimizer.set_state(state)
AdamSetStateCall ==
  /\ variant = "adam"
  /\ calls < MaxCalls
  /\ \E state \in Payloads :
       LET r == AdamSetState(Self, state)
       IN /\ first_moment_moving_average' = r.first_moment_moving_average
          /\ second_moment_moving_average' = r.second_moment_moving_average
          /\ t' = r.t
          /\ ret' = Call("set_state", r.err, <<>>, NoGradient, state, <<>>)
  /\ calls' = calls + 1
  /\ OneOptimizer
  /\ UNCHANGED <<variant, momentum, moving_average>>

Next ==
  \/ MomentumRunStepCall
  \/ MomentumGetStateCall
  \/ MomentumSetStateCall
  \/ AdamRunStepCall
  \/ AdamGetStateCall
  \/ AdamSetStateCall

Spec == Init /\ [][Next]_vars

\* ------------------------------------------- a counted run of AdamOptimizer
\* a new AdamOptimizer, and the length its caller's parameter vectors have
InitCount ==
  /\ variant = "adam"
  /\ momentum = 0
  /\ moving_average = InitialMovingAverage
  /\ first_moment_moving_average = InitialAdam.first_moment_moving_average
  /\ second_moment_moving_average = InitialAdam.second_moment_moving_average
  /\ t = InitialAdam.t
  /\ ret = NoCall
  /\ calls = 0
  /\ fixed_len \in 0..MaxDim
  /\ steps = 0
  /\ ndarray_seen = FALSE
  /\ phase = "warmup"
  /\ other = InitialAdam
  /\ other_ret = NoCall

Succeeded(err) == IF err = "none" THEN 1 ELSE 0

\* AdamOptimizer.run_step(current_input, gradient), current_input of fixed_len
\* elements, before any state is captured
CountedRunStep ==
  /\ phase = "warmup"
  /\ calls < MaxSteps
  /\ \E current_input \in {p \in Params : Len(p) = fixed_len}, gradient \in Gradients :
       LET r == AdamRunStep(Self, current_input, gradient)
       IN /\ first_moment_moving_average' = r.first_moment_moving_average
          /\ second_moment_moving_average' = r.second_moment_moving_average
          /\ t' = r.t
          /\ ret' = Call("run_step", r.err, current_input, gradient, <<>>, r.out)
          /\ steps' = steps + Succeeded(r.err)
          /\ ndarray_seen' = (ndarray_seen \/ gradient.kind = "ndarray")
  /\ calls' = calls + 1
  /\ UNCHANGED <<variant, momentum, moving_average, fixed_len, phase, other, other_ret>>

SpecCount == InitCount /\ [][CountedRunStep]_vars

\* ------------------------------------------------- the state, round the trip
\* state = first.get_state(); second = AdamOptimizer(step_size);
\* second.set_state(state), after at least one run_step of the first succeeded
Restore ==
  /\ phase = "warmup"
  /\ steps >= 1
  /\ LET state == AdamGetState(Self)
         r == AdamSetState(InitialAdam, state)
     IN /\ ret' = Call("get_state", "none", <<>>, NoGradient, <<>>, state)
        /\ other' = [first_moment_moving_average |-> r.first_moment_moving_average,
                     second_moment_moving_average |-> r.second_moment_moving_average,
                     t |-> r.t]
        /\ other_ret' = Call("set_state", r.err, <<>>, NoGradient, state, <<>>)
  /\ phase' = "paired"
  /\ AdamUnchanged
  /\ UNCHANGED <<variant, momentum, moving_average, calls, fixed_len, steps, ndarray_seen>>

\* first.run_step(current_input, gradient) and
\* second.run_step(current_input, gradient) on the same arguments
PairedRunStep ==
  /\ phase = "paired"
  /\ calls < MaxSteps
  /\ \E current_input \in {p \in Params : Len(p) = fixed_len}, gradient \in Gradients :
       LET r == AdamRunStep(Self, current_input, gradient)
           o == AdamRunStep(other, current_input, gradient)
       IN /\ first_moment_moving_average' = r.first_moment_moving_average
          /\ second_moment_moving_average' = r.second_moment_moving_average
          /\ t' = r.t
          /\ ret' = Call("run_step", r.err, current_input, gradient, <<>>, r.out)
          /\ other' = [first_moment_moving_average |-> o.first_moment_moving_average,
                       second_moment_moving_average |-> o.second_moment_moving_average,
                       t |-> o.t]
          /\ other_ret' = Call("run_step", o.err, current_input, gradient, <<>>, o.out)
          /\ steps' = steps + Succeeded(r.err)
  /\ calls' = calls + 1
  /\ UNCHANGED <<variant, momentum, moving_average, fixed_len, ndarray_seen, phase>>

NextRoundTrip ==
  \/ CountedRunStep
  \/ Restore
  \/ PairedRunStep

SpecRoundTrip == InitCount /\ [][NextRoundTrip]_vars

\* ===================================================================== claims
\* the length of the accumulator run_step looks at
Dimension ==
  IF variant = "momentum" THEN Len(moving_average.val)
  ELSE Len(first_moment_moving_average.val)

Accumulators ==
  <<moving_average, first_moment_moving_average, second_moment_moving_average, t>>

RanStep == ret'.op = "run_step" /\ calls' = calls + 1
SetState == ret'.op = "set_state" /\ calls' = calls + 1

\* what the claims about set_state say of the state s it was given
PayloadDim(s) == (Len(s) - 1) \div 2
PayloadRejected(s) == Len(s) % 2 = 0 \/ IntOf(s[Len(s)]) < 0

\* C2 as stated: AdamOptimizer.set_state(s) fails exactly when len(s) is even
\* or the recovered step counter is negative, and otherwise leaves
\* m = s[0:D], v = s[D:2D] and t = s[-1], D = (len(s) - 1) / 2.
C2_AsStated ==
  (variant = "adam" /\ ret.op = "set_state") =>
    LET s == ret.state
        D == PayloadDim(s)
    IN /\ (ret.err # "none") <=> PayloadRejected(s)
       /\ ret.err = "none" =>
            /\ first_moment_moving_average.val = SubSeq(s, 1, D)
            /\ second_moment_moving_average.val = SubSeq(s, D + 1, 2 * D)
            /\ t * Unit = s[Len(s)]

\* C2 amended: AdamOptimizer.set_state(s) fails exactly when len(s) is even or
\* int(s[-1]) is negative, and otherwise leaves m = s[0:D] and v = s[D:2D],
\* each element converted to float32, and t = int(s[-1]), the last element
\* truncated toward zero.
C2_SetStateSplits ==
  (variant = "adam" /\ ret.op = "set_state") =>
    LET s == ret.state
        D == PayloadDim(s)
    IN /\ (ret.err # "none") <=> PayloadRejected(s)
       /\ ret.err = "none" =>
            /\ first_moment_moving_average.dtype = "float32"
            /\ second_moment_moving_average.dtype = "float32"
            /\ Len(first_moment_moving_average.val) = D
            /\ Len(second_moment_moving_average.val) = D
            /\ \A i \in 1..D :
                 /\ first_moment_moving_average.val[i] = F32(s[i])
                 /\ second_moment_moving_average.val[i] = F32(s[D + i])
            /\ t = IntOf(s[Len(s)])

\* a set_state that succeeded on two moments of two elements each and a
\* counter with a fraction, the elements not all float32 values
C2_Witness ==
  /\ variant = "adam" /\ ret.op = "set_state" /\ ret.err = "none"
  /\ Len(ret.state) = 5
  /\ ret.state[5] = Unit + Fraction
  /\ ret.state[1] = Fraction
  /\ t = 1

\* C3 as stated: a set_state of AdamOptimizer that fails leaves m, v and t
\* (so get_state()) as they were before the call.
C3_AllOrNothing ==
  [][(variant = "adam" /\ SetState /\ ret'.err # "none") =>
       /\ first_moment_moving_average' = first_moment_moving_average
       /\ second_moment_moving_average' = second_moment_moving_average
       /\ t' = t
       /\ AdamGetState(Self)' = AdamGetState(Self)]_vars

\* C4: a run_step whose current_params has a length other than that of the
\* non-empty accumulator fails with the dimension error and changes neither
\* moving_average nor m, v, t.
C4_ParamMismatchRejected ==
  [][(RanStep /\ Dimension # 0 /\ Len(ret'.current_input) # Dimension) =>
       (ret'.err = "dimension" /\ Accumulators' = Accumulators)]_vars

\* an AdamOptimizer of dimension 2 after one step that refused a parameter
\* vector of one element
C4_Witness ==
  /\ variant = "adam" /\ ret.op = "run_step" /\ ret.err = "dimension"
  /\ Len(first_moment_moving_average.val) = 2
  /\ Len(ret.current_input) = 1
  /\ t = 1

\* C5 as stated: once the dimension D is fixed, a run_step whose gradient has
\* a length other than D is an error, and a run_step that succeeds leaves the
\* accumulator's dimension D.
C5_GradientMismatchRejected ==
  [][(RanStep /\ Dimension # 0) =>
       /\ Len(ret'.gradient.val) # Dimension => ret'.err # "none"
       /\ ret'.err = "none" => Dimension' = Dimension]_vars

\* C6 as stated: a run_step that finds the accumulators empty and succeeds
\* does what it does on a new optimizer, and leaves accumulators of
\* len(current_params) elements and, for Adam, t = 1.
C6_LazyInit ==
  [][(RanStep /\ Dimension = 0 /\ ret'.err = "none") =>
       /\ variant = "momentum" =>
            moving_average' =
              MomentumRunStep(momentum, InitialMovingAverage, ret'.current_input,
                              ret'.gradient).moving_average
       /\ variant = "adam" =>
            LET r == AdamRunStep(InitialAdam, ret'.current_input, ret'.gradient)
            IN /\ first_moment_moving_average' = r.first_moment_moving_average
               /\ second_moment_moving_average' = r.second_moment_moving_average
               /\ t' = r.t
               /\ t' = 1
       /\ Dimension' = Len(ret'.current_input)]_vars

\* C6 for the calls whose gradient has the length of current_params
C6_SameLength ==
  [][(RanStep /\ Dimension = 0 /\ ret'.err = "none"
        /\ Len(ret'.gradient.val) = Len(ret'.current_input)) =>
       /\ Dimension' = Len(ret'.current_input)
       /\ variant = "adam" => t' = 1]_vars

\* the distance between two numbers, and the rounding a float32 result allows
Distance(a, b) == IF a >= b THEN a - b ELSE b - a
Tolerance == Ulp32

\* C7 as stated: with momentum = 0 a run_step that succeeds returns
\* current_params + step_size * gradient element by element, whatever the
\* moving average was, and leaves moving_average equal to gradient (both
\* within the rounding of float32).
C7_PlainGradientAscent ==
  (variant = "momentum" /\ momentum = 0 /\ ret.op = "run_step" /\ ret.err = "none") =>
    LET p == ret.current_input
        g == ret.gradient.val
    IN /\ Len(g) = Len(p)
       /\ Len(ret.out) = Len(p)
       /\ Len(moving_average.val) = Len(g)
       /\ \A i \in 1..Len(p) :
            /\ Distance(ret.out[i], p[i] + Mul(step_size, g[i])) <= Tolerance
            /\ Distance(moving_average.val[i], g[i]) <= Tolerance

\* C7 for the calls whose gradient has the length of current_params
C7_SameLength ==
  (variant = "momentum" /\ momentum = 0 /\ ret.op = "run_step" /\ ret.err = "none"
     /\ Len(ret.gradient.val) = Len(ret.current_input)) =>
    LET p == ret.current_input
        g == ret.gradient.val
    IN /\ Len(ret.out) = Len(p)
       /\ Len(moving_average.val) = Len(g)
       /\ \A i \in 1..Len(p) :
            /\ Distance(ret.out[i], p[i] + Mul(step_size, g[i])) <= Tolerance
            /\ Distance(moving_average.val[i], g[i]) <= Tolerance

\* C8: m and v have one length D, and get_state() is m, then v, then t:
\* 2 * D + 1 elements, the last one the step counter.
C8_StateLayout ==
  variant = "adam" =>
    LET s == AdamGetState(Self)
        D == Len(first_moment_moving_average.val)
    IN /\ Len(second_moment_moving_average.val) = D
       /\ Len(s) = 2 * D + 1
       /\ Len(s) % 2 = 1
       /\ SubSeq(s, 1, D) = first_moment_moving_average.val
       /\ SubSeq(s, D + 1, 2 * D) = second_moment_moving_average.val
       /\ s[Len(s)] = t * Unit
       /\ ret.op = "get_state" => ret.out = s

\* an AdamOptimizer of dimension 2 after a set_state that failed
C8_Witness ==
  /\ variant = "adam" /\ ret.op = "set_state" /\ ret.err = "negative"
  /\ Len(first_moment_moving_average.val) = 2

\* the sequences a and b are equal within the rounding of float32
Close(a, b) ==
  /\ Len(a) = Len(b)
  /\ \A i \in 1..Len(a) : Distance(a[i], b[i]) <= Tolerance

\* C10 as stated: t is never negative, so set_state(get_state()) does not
\* raise and leaves m, v (within the rounding of float32) and t as they are.
C10_StateRestorable ==
  variant = "adam" =>
    LET r == AdamSetState(Self, AdamGetState(Self))
    IN /\ t >= 0
       /\ r.err = "none"
       /\ Close(r.first_moment_moving_average.val, first_moment_moving_average.val)
       /\ Close(r.second_moment_moving_average.val, second_moment_moving_average.val)
       /\ r.t = t

\* what a caller sees of the two optimizers after the same call on each
SameOutcome ==
  /\ ret.err = other_ret.err
  /\ ret.out = other_ret.out
  /\ AdamGetState(Self) = AdamGetState(other)

\* C1 as stated: after at least one run_step of A succeeded, a new optimizer
\* B given set_state(A.get_state()) returns what A returns on every later
\* run_step, and B.get_state() equals A.get_state() after each of them.
C1_AsStated ==
  phase = "paired" =>
    /\ other_ret.op = "set_state" => other_ret.err = "none"
    /\ ret.op = "run_step" => SameOutcome

\* C1 amended: the same, provided every gradient A was given before the
\* capture was a plain sequence (which run_step converts to float32) and not
\* an ndarray: then B returns what A returns and the two states stay equal.
C1_RoundTrip ==
  (phase = "paired" /\ ~ndarray_seen) =>
    /\ other_ret.op = "set_state" => other_ret.err = "none"
    /\ ret.op = "run_step" => SameOutcome

\* the second of two run_steps on both optimizers that succeeded, on an
\* ndarray gradient, after a warm-up on a sequence, dimension 2
C1_Witness ==
  /\ phase = "paired" /\ ~ndarray_seen
  /\ ret.op = "run_step" /\ ret.err = "none" /\ ret.gradient.kind = "ndarray"
  /\ Len(ret.out) = 2
  /\ steps = 3
  /\ t = 3

\* C9 as stated: after N run_steps that succeeded on a new AdamOptimizer, on
\* parameter vectors of one length, whatever that length, t equals N, and
\* each of them raised t by one.
C9_AsStated ==
  /\ phase = "warmup" => t = steps
  /\ ret.op = "run_step" /\ ret.err = "none" => t = steps

\* C9 amended: a run_step that succeeds leaves t = 1 when it found the
\* accumulators empty and t + 1 otherwise; so t equals N after N run_steps
\* that succeeded whenever only the first of them found the accumulators
\* empty, which is so for every fixed length of at least 2.
C9_CounterCounts ==
  /\ [][(RanStep /\ ret'.err = "none") =>
          t' = IF Dimension = 0 THEN 1 ELSE t + 1]_vars
  /\ [](fixed_len >= 2 => t = steps)

\* three run_steps that succeeded on parameter vectors of two elements
C9_Witness ==
  /\ phase = "warmup" /\ fixed_len = 2
  /\ ret.op = "run_step" /\ ret.err = "none"
  /\ steps = 3
  /\ t = 3


====
